---- MODULE Spec2Model ----
(***************************************************************************)
(* The product catalogue of DB3.js: the Product / Variant schema, the      *)
(* seeding routine insertSampleData, the example queries of runQueries and *)
(* the two read routes that call the schema's static finders.              *)
(*                                                                         *)
(* The collection is a sequence of stored documents in insertion (natural) *)
(* order.  The driver calls (deleteMany, insertMany, find, aggregate,      *)
(* updateOne) are modelled by what they do to that sequence.               *)
(*                                                                         *)
(* Representation.  Money is kept in cents (999 -> 99900, 12.99 -> 1299),  *)
(* rating.average in tenths (4.8 -> 48), so that every number is an        *)
(* integer; the schema limits are scaled the same way.  A colour and a     *)
(* query-string parameter are sequences of one-character strings, so that  *)
(* the regular expression test and parseInt work on characters.  An        *)
(* optional field of an input document is <<>> when absent and <<v>> when  *)
(* given.  Fields that no modelled operation reads (description, brand,    *)
(* tags, images, rating.count, _id) are left out.                          *)
(***************************************************************************)
EXTENDS Integers, Sequences, FiniteSets, TLC

VARIABLES catalog,   \* the products collection, in natural order
          pc,        \* position of the app.listen callback
          now,       \* the clock that createdAt / updatedAt are read from
          logged,    \* the error insertSampleData caught and logged
          last       \* the operation that acted last, with its outcome

vars == <<catalog, pc, now, logged, last>>

(***************************************************************************)
(* Bounds                                                                  *)
(***************************************************************************)
MaxEdits == 1   \* fields in which a seeded batch may differ from the sample

(***************************************************************************)
(* Schema                                                                  *)
(***************************************************************************)
Categories ==
  {"Electronics", "Clothing", "Books", "Home & Kitchen", "Sports", "Beauty", "Toys"}

MinStock == 0
MinPriceModifier == -100000
MaxPriceModifier == 100000
MinBasePrice == 0
MinRating == 0
MaxRating == 50

VariantDoc(color, size, stock, sku, priceModifier) ==
  [color |-> color, size |-> size, stock |-> stock, sku |-> sku,
   priceModifier |-> <<priceModifier>>]

ProductDoc(name, basePrice, category, ratingAverage, variants) ==
  [name |-> name, basePrice |-> basePrice, category |-> category,
   isActive |-> <<>>, ratingAverage |-> <<ratingAverage>>, variants |-> variants]

\* An optional field with the schema default applied.
WithDefault(opt, default) == IF opt = <<>> THEN default ELSE opt[1]

\* new Product(doc): the document the schema builds from an input, with the
\* declared defaults (isActive true, priceModifier 0, rating.average 0).
CastVariant(v) ==
  [color |-> v.color, size |-> v.size, stock |-> v.stock, sku |-> v.sku,
   priceModifier |-> WithDefault(v.priceModifier, 0)]

CastProduct(d) ==
  [name |-> d.name, basePrice |-> d.basePrice, category |-> d.category,
   isActive |-> WithDefault(d.isActive, TRUE),
   ratingAverage |-> WithDefault(d.ratingAverage, 0),
   variants |-> [j \in DOMAIN d.variants |-> CastVariant(d.variants[j])]]

\* The declared validators of one variant; "ok" or the failing path.
ValidateVariant(v) ==
  IF v.stock < MinStock THEN "stock"
  ELSE IF v.priceModifier < MinPriceModifier \/ v.priceModifier > MaxPriceModifier
       THEN "priceModifier"
  ELSE "ok"

\* The declared validators of one product; "ok" or the failing path.
ValidateProduct(p) ==
  IF p.basePrice < MinBasePrice THEN "basePrice"
  ELSE IF p.category \notin Categories THEN "category"
  ELSE IF \E j \in DOMAIN p.variants : ValidateVariant(p.variants[j]) # "ok"
       THEN LET j == CHOOSE k \in DOMAIN p.variants :
                        /\ ValidateVariant(p.variants[k]) # "ok"
                        /\ \A m \in 1..(k-1) : ValidateVariant(p.variants[m]) = "ok"
            IN  ValidateVariant(p.variants[j])
  ELSE IF p.ratingAverage < MinRating \/ p.ratingAverage > MaxRating
       THEN "rating.average"
  ELSE "ok"

\* timestamps: true, on creation.
Stamp(p, t) ==
  [name |-> p.name, basePrice |-> p.basePrice, category |-> p.category,
   isActive |-> p.isActive, ratingAverage |-> p.ratingAverage,
   variants |-> p.variants, createdAt |-> t, updatedAt |-> t]

\* The SKUs a document contributes to the unique multikey index variants.sku.
SkuKeys(p) == {p.variants[j].sku : j \in DOMAIN p.variants}

\* unique: true on variants.sku.  The index holds one entry per document and
\* key, so it rejects a key that ANOTHER document already holds; two equal
\* keys inside one document are one index entry and are accepted.  The index
\* is taken to be built before the first insert.
DuplicateKey(coll, p) ==
  \E i \in DOMAIN coll : SkuKeys(coll[i]) \cap SkuKeys(p) # {}

NoError == [kind |-> "none", path |-> "", index |-> 0]

(***************************************************************************)
(* Sample data                                                             *)
(***************************************************************************)
sampleProducts ==
  <<
    ProductDoc("iPhone 15 Pro", 99900, "Electronics", 48, <<
        VariantDoc(<<"T","i","t","a","n","i","u","m"," ","B","l","a","c","k">>,
                   "128GB", 25, "IP15P-BLK-128", 0),
        VariantDoc(<<"T","i","t","a","n","i","u","m"," ","W","h","i","t","e">>,
                   "256GB", 15, "IP15P-WHT-256", 10000),
        VariantDoc(<<"T","i","t","a","n","i","u","m"," ","B","l","u","e">>,
                   "512GB", 8, "IP15P-BLU-512", 20000) >>),
    ProductDoc("Nike Air Max 270", 15000, "Sports", 45, <<
        VariantDoc(<<"B","l","a","c","k","/","W","h","i","t","e">>,
                   "US 9", 45, "NIKE-AM270-BW-9", 0),
        VariantDoc(<<"R","e","d","/","B","l","a","c","k">>,
                   "US 10", 32, "NIKE-AM270-RB-10", 0),
        VariantDoc(<<"B","l","u","e","/","W","h","i","t","e">>,
                   "US 11", 18, "NIKE-AM270-BW-11", 0),
        VariantDoc(<<"B","l","a","c","k","/","W","h","i","t","e">>,
                   "US 12", 0, "NIKE-AM270-BW-12", 0) >>),
    ProductDoc("The Great Gatsby", 1299, "Books", 47, <<
        VariantDoc(<<"P","a","p","e","r","b","a","c","k">>,
                   "Standard", 120, "BOOK-GG-PB-STD", 0),
        VariantDoc(<<"H","a","r","d","c","o","v","e","r">>,
                   "Standard", 45, "BOOK-GG-HC-STD", 800),
        VariantDoc(<<"C","o","l","l","e","c","t","o","r","'","s"," ","E","d","i","t","i","o","n">>,
                   "Large", 15, "BOOK-GG-CE-LRG", 1500) >>),
    ProductDoc("Stainless Steel Cookware Set", 29999, "Home & Kitchen", 43, <<
        VariantDoc(<<"S","i","l","v","e","r">>,
                   "10-Piece", 28, "KITCHEN-SET-SIL-10", 0),
        VariantDoc(<<"B","l","a","c","k">>,
                   "10-Piece", 15, "KITCHEN-SET-BLK-10", 2000) >>)
  >>

(***************************************************************************)
(* Batches.  The program seeds the literal above.  To exercise the schema  *)
(* the seeding routine is also run on every batch that differs from the    *)
(* literal in at most MaxEdits fields.                                     *)
(***************************************************************************)
DuplicateSkuInputs == {"IP15P-BLK-128", "NIKE-AM270-BW-9"}
StockInputs == {-1, 0}
PriceModifierInputs == {100100}
CategoryInputs == {"Electronics", "Nonexistent"}
BasePriceInputs == {-1}
RatingInputs == {51}

\* The positions <<product, variant>> of the variants of a batch or collection.
VariantPositions(b) == UNION {{<<i, j>> : j \in DOMAIN b[i].variants} : i \in DOMAIN b}

OneEdit(b) ==
       {[b EXCEPT ![i].isActive = <<FALSE>>] : i \in DOMAIN b}
  \cup {[b EXCEPT ![i].category = c] : i \in DOMAIN b, c \in CategoryInputs}
  \cup {[b EXCEPT ![i].basePrice = x] : i \in DOMAIN b, x \in BasePriceInputs}
  \cup {[b EXCEPT ![i].ratingAverage = <<x>>] : i \in DOMAIN b, x \in RatingInputs}
  \cup {[b EXCEPT ![q[1]].variants[q[2]].sku = k] :
          q \in VariantPositions(b), k \in DuplicateSkuInputs}
  \cup {[b EXCEPT ![q[1]].variants[q[2]].stock = x] :
          q \in VariantPositions(b), x \in StockInputs}
  \cup {[b EXCEPT ![q[1]].variants[q[2]].priceModifier = <<x>>] :
          q \in VariantPositions(b), x \in PriceModifierInputs}

RECURSIVE Edited(_)
Edited(n) ==
  IF n = 0 THEN {sampleProducts}
  ELSE LET prev == Edited(n - 1)
       IN  prev \cup UNION {OneEdit(b) : b \in prev}

Batches == Edited(MaxEdits)

(***************************************************************************)
(* Driver calls                                                            *)
(***************************************************************************)
\* Product.deleteMany({}): the empty filter matches every document.
DeleteMany(coll) == SelectSeq(coll, LAMBDA p : FALSE)

\* The server side of an ordered insertMany: the documents are written one
\* after the other and the first rejected one stops the command; what was
\* written before it stays.
RECURSIVE ServerInsert(_, _, _)
ServerInsert(coll, docs, k) ==
  IF k > Len(docs) THEN [catalog |-> coll, error |-> NoError]
  ELSE IF DuplicateKey(coll, docs[k])
       THEN [catalog |-> coll,
             error |-> [kind |-> "MongoBulkWriteError", path |-> "variants.sku",
                        index |-> k]]
  ELSE ServerInsert(Append(coll, docs[k]), docs, k + 1)

\* The least element of a non-empty set of integers.
Least(S) == CHOOSE x \in S : \A y \in S : x <= y

\* Product.insertMany(docs): every document is built and validated first; a
\* validation failure rejects the call before anything is sent to the
\* server.  Otherwise the stamped documents go to the server in order.
InsertMany(coll, docs, t) ==
  LET cast == [i \in DOMAIN docs |-> CastProduct(docs[i])]
      bad  == {i \in DOMAIN docs : ValidateProduct(cast[i]) # "ok"}
  IN  IF bad # {}
      THEN [catalog |-> coll,
            error |-> [kind |-> "ValidationError",
                       path |-> ValidateProduct(cast[Least(bad)]),
                       index |-> Least(bad)]]
      ELSE ServerInsert(coll, [i \in DOMAIN docs |-> Stamp(cast[i], t)], 1)

\* A driver call against an unreachable server.
Faults == {"none", "deleteMany", "insertMany"}
NetworkError == [kind |-> "MongoNetworkError", path |-> "", index |-> 0]

\* The body of insertSampleData's try block: deleteMany, then insertMany.
\* A throw of deleteMany skips insertMany.
SeedAttempt(coll, docs, fault, t) ==
  IF fault = "deleteMany" THEN [catalog |-> coll, error |-> NetworkError]
  ELSE IF fault = "insertMany"
       THEN [catalog |-> DeleteMany(coll), error |-> NetworkError]
  ELSE InsertMany(DeleteMany(coll), docs, t)

\* What insertSampleData hands to its caller: the catch block logs the error
\* and the function returns normally.
SeedReturn(error) == NoError

(***************************************************************************)
(* Queries                                                                 *)
(***************************************************************************)
\* The elements of seq whose position is marked in keep, in order, from
\* position k on.
RECURSIVE Pick(_, _, _)
Pick(seq, keep, k) ==
  IF k > Len(seq) THEN <<>>
  ELSE IF keep[k] THEN <<seq[k]>> \o Pick(seq, keep, k + 1)
  ELSE Pick(seq, keep, k + 1)

\* A cursor over the collection: the documents whose position the filter
\* marks, in natural order.
Find(coll, matches) == Pick(coll, matches, 1)

DefaultThreshold == 5

\* findByCategory without the isActive condition.
findByCategoryAnyStatus(coll, category) ==
  Find(coll, [k \in DOMAIN coll |-> coll[k].category = category])

\* productSchema.statics.findByCategory
findByCategory(coll, category) ==
  Find(coll, [k \in DOMAIN coll |->
                coll[k].category = category /\ coll[k].isActive = TRUE])

\* findLowStock with $lt in place of $lte.
findLowStockStrict(coll, threshold) ==
  LET t == WithDefault(threshold, DefaultThreshold)
  IN  Find(coll, [k \in DOMAIN coll |->
                    /\ \E j \in DOMAIN coll[k].variants : coll[k].variants[j].stock < t
                    /\ coll[k].isActive = TRUE])

\* productSchema.statics.findLowStock; the argument is <<>> when omitted.
\* A condition on the array path variants.stock holds of a document when
\* some element of the array satisfies it.
findLowStock(coll, threshold) ==
  LET t == WithDefault(threshold, DefaultThreshold)
  IN  Find(coll, [k \in DOMAIN coll |->
                    /\ \E j \in DOMAIN coll[k].variants : coll[k].variants[j].stock <= t
                    /\ coll[k].isActive = TRUE])

\* productSchema.virtual('totalStock'): variants.reduce((total, v) => total + v.stock, 0)
RECURSIVE Reduce(_, _, _)
Reduce(variants, total, k) ==
  IF k > Len(variants) THEN total
  ELSE Reduce(variants, total + variants[k].stock, k + 1)

totalStock(p) == Reduce(p.variants, 0, 1)

\* Case folding of one character, as the i flag of a regular expression does.
UpperCase == <<"A","B","C","D","E","F","G","H","I","J","K","L","M",
               "N","O","P","Q","R","S","T","U","V","W","X","Y","Z">>
LowerCase == <<"a","b","c","d","e","f","g","h","i","j","k","l","m",
               "n","o","p","q","r","s","t","u","v","w","x","y","z">>

ToLower(c) ==
  IF \E n \in DOMAIN UpperCase : UpperCase[n] = c
  THEN LowerCase[CHOOSE n \in DOMAIN UpperCase : UpperCase[n] = c]
  ELSE c

\* /pattern/i tested against s: the pattern occurs somewhere in s, letters
\* compared without regard to case.
RegexTestI(pattern, s) ==
  \E off \in 0..(Len(s) - Len(pattern)) :
    \A n \in DOMAIN pattern : ToLower(s[off + n]) = ToLower(pattern[n])

black == <<"b","l","a","c","k">>

\* Query 5: { 'variants.color': /black/i, 'variants.stock': { $gt: 0 } }.
\* The two conditions are separate conditions on the array: each needs some
\* element that satisfies it, not the same element for both.
findVariantColor(coll, pattern) ==
  Find(coll, [k \in DOMAIN coll |->
                /\ \E j \in DOMAIN coll[k].variants :
                     RegexTestI(pattern, coll[k].variants[j].color)
                /\ \E j \in DOMAIN coll[k].variants : coll[k].variants[j].stock > 0])

\* Query 4: { category: 'Sports' } with a projection of name and four
\* variant fields.
ProjectVariant(v) == [color |-> v.color, size |-> v.size, stock |-> v.stock, sku |-> v.sku]

findWithProjection(coll, category) ==
  LET docs == Find(coll, [k \in DOMAIN coll |-> coll[k].category = category])
  IN  [k \in DOMAIN docs |->
         [name |-> docs[k].name,
          variants |-> [j \in DOMAIN docs[k].variants |->
                          ProjectVariant(docs[k].variants[j])]]]

\* $sum over the array '$variants.stock'.
RECURSIVE SumStock(_)
SumStock(variants) ==
  IF variants = <<>> THEN 0 ELSE Head(variants).stock + SumStock(Tail(variants))

\* $filter: the elements of input whose position cond marks, in input order.
Filter(input, cond) == Pick(input, cond, 1)

\* cond: { $gt: ['$$variant.stock', 0] }
InStock(variants) == [j \in DOMAIN variants |-> variants[j].stock > 0]

\* Query 7 with $gte in place of $gt in the $match stage.
aggregateHighTotalStockAtLeast(coll, minTotal) ==
  LET added == [k \in DOMAIN coll |->
                  [doc |-> coll[k], totalStock |-> SumStock(coll[k].variants)]]
      matched == Pick(added, [k \in DOMAIN added |-> added[k].totalStock >= minTotal], 1)
  IN  [k \in DOMAIN matched |->
         [name |-> matched[k].doc.name, category |-> matched[k].doc.category,
          totalStock |-> matched[k].totalStock,
          variants |-> Filter(matched[k].doc.variants,
                              InStock(matched[k].doc.variants))]]

\* Query 7: $addFields totalStock, $match totalStock > minTotal, $project.
aggregateHighTotalStock(coll, minTotal) ==
  LET added == [k \in DOMAIN coll |->
                  [doc |-> coll[k], totalStock |-> SumStock(coll[k].variants)]]
      matched == Pick(added, [k \in DOMAIN added |-> added[k].totalStock > minTotal], 1)
  IN  [k \in DOMAIN matched |->
         [name |-> matched[k].doc.name, category |-> matched[k].doc.category,
          totalStock |-> matched[k].totalStock,
          variants |-> Filter(matched[k].doc.variants,
                              InStock(matched[k].doc.variants))]]

\* Query 6: $group by category with $avg of basePrice and a count.  The
\* average is kept as the exact fraction sum / productCount.
RECURSIVE SumBasePrice(_)
SumBasePrice(docs) ==
  IF docs = <<>> THEN 0 ELSE Head(docs).basePrice + SumBasePrice(Tail(docs))

GroupByCategory(coll) ==
  {LET docs == Find(coll, [k \in DOMAIN coll |-> coll[k].category = c])
   IN  [id |-> c, avgPrice |-> [num |-> SumBasePrice(docs), den |-> Len(docs)],
        productCount |-> Len(docs)] : c \in {coll[i].category : i \in DOMAIN coll}}

\* $sort { avgPrice: -1 }: a is not below b.
AvgAtLeast(a, b) == a.avgPrice.num * b.avgPrice.den >= b.avgPrice.num * a.avgPrice.den

\* The orders $sort may put the groups in; groups of equal average may come
\* in either order.
SortedDescending(groups) ==
  {s \in [1..Cardinality(groups) -> groups] :
     /\ \A a, b \in DOMAIN s : a # b => s[a] # s[b]
     /\ \A a, b \in DOMAIN s : a < b => AvgAtLeast(s[a], s[b])}

\* Query 9: find({}).limit(3), read with the totalStock virtual.
Limit(docs, n) == SubSeq(docs, 1, IF Len(docs) < n THEN Len(docs) ELSE n)

withVirtualTotalStock(docs) ==
  [k \in DOMAIN docs |-> [name |-> docs[k].name, totalStock |-> totalStock(docs[k]),
                          variants |-> Len(docs[k].variants)]]

\* Query 8 with the all-positional operator variants.$[].stock: every variant
\* of the matched document is set.
updateOneAllElements(coll, sku, newStock, t) ==
  LET hits == {i \in DOMAIN coll :
                \E j \in DOMAIN coll[i].variants : coll[i].variants[j].sku = sku}
  IN  IF hits = {}
      THEN [catalog |-> coll, matchedCount |-> 0, modifiedCount |-> 0]
      ELSE LET i == Least(hits)
           IN  [catalog |-> [coll EXCEPT
                               ![i].variants = [j \in DOMAIN coll[i].variants |->
                                                  [coll[i].variants[j] EXCEPT !.stock = newStock]],
                               ![i].updatedAt = t],
                matchedCount |-> 1, modifiedCount |-> 1]

\* Query 8 with a filter that falls back to the first document when no
\* variant carries the SKU.
updateOneFirstDocument(coll, sku, newStock, t) ==
  LET hits == {i \in DOMAIN coll :
                \E j \in DOMAIN coll[i].variants : coll[i].variants[j].sku = sku}
  IN  IF hits = {}
      THEN IF coll = <<>> \/ coll[1].variants = <<>>
           THEN [catalog |-> coll, matchedCount |-> 0, modifiedCount |-> 0]
           ELSE [catalog |-> [coll EXCEPT ![1].variants[1].stock = newStock,
                                          ![1].updatedAt = t],
                 matchedCount |-> 1, modifiedCount |-> 1]
      ELSE LET i == Least(hits)
               j == Least({m \in DOMAIN coll[i].variants : coll[i].variants[m].sku = sku})
           IN  [catalog |-> [coll EXCEPT ![i].variants[j].stock = newStock,
                                         ![i].updatedAt = t],
                matchedCount |-> 1, modifiedCount |-> 1]

\* Query 8: updateOne({ 'variants.sku': sku }, { $set: { 'variants.$.stock': newStock } }).
\* The first document with a matching element is taken, $ is the position of
\* its first matching element; the new value is cast to a number and no
\* validator runs on an update; timestamps adds updatedAt to the $set.
updateOne(coll, sku, newStock, t) ==
  LET hits == {i \in DOMAIN coll :
                \E j \in DOMAIN coll[i].variants : coll[i].variants[j].sku = sku}
  IN  IF hits = {}
      THEN [catalog |-> coll, matchedCount |-> 0, modifiedCount |-> 0]
      ELSE LET i == Least(hits)
               j == Least({m \in DOMAIN coll[i].variants : coll[i].variants[m].sku = sku})
           IN  [catalog |-> [coll EXCEPT ![i].variants[j].stock = newStock,
                                         ![i].updatedAt = t],
                matchedCount |-> 1, modifiedCount |-> 1]

(***************************************************************************)
(* The low-stock route's reading of its query parameter                    *)
(***************************************************************************)
Digits == <<"0","1","2","3","4","5","6","7","8","9">>
IsDigit(c) == \E n \in DOMAIN Digits : Digits[n] = c
DigitValue(c) == (CHOOSE n \in DOMAIN Digits : Digits[n] = c) - 1

RECURSIVE SkipSpaces(_)
SkipSpaces(s) == IF s # <<>> /\ Head(s) = " " THEN SkipSpaces(Tail(s)) ELSE s

\* The value of the longest prefix of digits of s, continuing from acc.
RECURSIVE ReadDigits(_, _)
ReadDigits(s, acc) ==
  IF s # <<>> /\ IsDigit(Head(s)) THEN ReadDigits(Tail(s), 10 * acc + DigitValue(Head(s)))
  ELSE acc

\* parseInt: leading blanks, an optional sign, then digits up to the first
\* other character; NaN when no digit follows.  An absent parameter is <<>>.
parseInt(str) ==
  LET s == SkipSpaces(str)
      neg == s # <<>> /\ Head(s) = "-"
      body == IF s # <<>> /\ Head(s) \in {"-", "+"} THEN Tail(s) ELSE s
  IN  IF body = <<>> \/ ~IsDigit(Head(body)) THEN [nan |-> TRUE, value |-> 0]
      ELSE [nan |-> FALSE,
            value |-> IF neg THEN 0 - ReadDigits(body, 0) ELSE ReadDigits(body, 0)]

RouteDefaultThreshold == 10

\* parseInt(req.query.threshold) || 10: NaN and 0 are falsy.
routeThreshold(param) ==
  LET n == parseInt(param)
  IN  IF n.nan \/ n.value = 0 THEN RouteDefaultThreshold ELSE n.value

(***************************************************************************)
(* State machine                                                           *)
(***************************************************************************)
\* What the database holds when the process starts: nothing, or what an
\* earlier start of the program left there (the sample, seeded at time 0,
\* with the stock of NIKE-AM270-BW-9 set to 40 by query 8).
LeftByEarlierStart ==
  updateOne(InsertMany(<<>>, sampleProducts, 0).catalog, "NIKE-AM270-BW-9", 40, 0).catalog

InitialCatalogs == {<<>>, LeftByEarlierStart}

Init ==
  /\ catalog \in InitialCatalogs
  /\ pc = "listen"
  /\ now = 1
  /\ logged = NoError
  /\ last = [op |-> "start", arg |-> <<>>, result |-> <<>>, error |-> NoError]

\* await insertSampleData() in the app.listen callback.
InsertSampleData ==
  /\ pc = "listen"
  /\ \E docs \in Batches, fault \in Faults :
       LET r == SeedAttempt(catalog, docs, fault, now)
       IN  /\ catalog' = r.catalog
           /\ logged' = r.error
           /\ last' = [op |-> "insertSampleData", arg |-> docs,
                       result |-> <<>>, error |-> SeedReturn(r.error)]
  /\ pc' = "q1"
  /\ now' = now + 1

\* Arguments of the example queries.  runQueries passes 'Electronics', 10,
\* 50 and ('NIKE-AM270-BW-9', 40); the same calls are also made with the
\* other values below.
CategoryArgs == {"Electronics", "Sports", "Nonexistent"}
ThresholdArgs == {<<>>, <<10>>, <<0>>}
MinTotalArgs == {50, 43, 95}
SkuArgs == {"NIKE-AM270-BW-9", "IP15P-BLK-128", "NO-SUCH-SKU"}
NewStockArgs == {40, 0, -1}
ThresholdParams == {<<>>, <<"0">>, <<" ","1","5","x">>, <<"-","1">>}

Outcome(op, arg, result) == [op |-> op, arg |-> arg, result |-> result, error |-> NoError]

\* 1. Product.find({})
Query1 ==
  /\ pc = "q1"
  /\ last' = Outcome("find", <<>>, Find(catalog, [k \in DOMAIN catalog |-> TRUE]))
  /\ pc' = "q2"
  /\ UNCHANGED <<catalog, now, logged>>

\* 2. Product.findByCategory(...)
Query2 ==
  /\ pc = "q2"
  /\ \E c \in CategoryArgs :
       last' = Outcome("findByCategory", c, findByCategory(catalog, c))
  /\ pc' = "q3"
  /\ UNCHANGED <<catalog, now, logged>>

\* 3. Product.findLowStock(...)
Query3 ==
  /\ pc = "q3"
  /\ \E t \in ThresholdArgs :
       last' = Outcome("findLowStock", WithDefault(t, DefaultThreshold),
                       findLowStock(catalog, t))
  /\ pc' = "q4"
  /\ UNCHANGED <<catalog, now, logged>>

\* 4. Product.find({ category: 'Sports' }, projection)
Query4 ==
  /\ pc = "q4"
  /\ last' = Outcome("findWithProjection", "Sports", findWithProjection(catalog, "Sports"))
  /\ pc' = "q5"
  /\ UNCHANGED <<catalog, now, logged>>

\* 5. Product.find({ 'variants.color': /black/i, 'variants.stock': { $gt: 0 } })
Query5 ==
  /\ pc = "q5"
  /\ last' = Outcome("findVariantColor", black, findVariantColor(catalog, black))
  /\ pc' = "q6"
  /\ UNCHANGED <<catalog, now, logged>>

\* 6. Product.aggregate([$group, $sort])
Query6 ==
  /\ pc = "q6"
  /\ \E sorted \in SortedDescending(GroupByCategory(catalog)) :
       last' = Outcome("aggregateAveragePriceByCategory", <<>>, sorted)
  /\ pc' = "q7"
  /\ UNCHANGED <<catalog, now, logged>>

\* 7. Product.aggregate([$addFields, $match, $project])
Query7 ==
  /\ pc = "q7"
  /\ \E minTotal \in MinTotalArgs :
       last' = Outcome("aggregateHighTotalStock", minTotal,
                       aggregateHighTotalStock(catalog, minTotal))
  /\ pc' = "q8"
  /\ UNCHANGED <<catalog, now, logged>>

\* 8. Product.updateOne(...); the result's modifiedCount is printed.
Query8 ==
  /\ pc = "q8"
  /\ \E sku \in SkuArgs, newStock \in NewStockArgs :
       LET r == updateOne(catalog, sku, newStock, now)
       IN  /\ catalog' = r.catalog
           /\ last' = Outcome("updateVariantStock", [sku |-> sku, newStock |-> newStock],
                              [matchedCount |-> r.matchedCount,
                               modifiedCount |-> r.modifiedCount])
  /\ pc' = "q9"
  /\ now' = now + 1
  /\ UNCHANGED logged

\* 9. Product.find({}).limit(3), printed with the totalStock virtual.
Query9 ==
  /\ pc = "q9"
  /\ last' = Outcome("findLimit", 3,
                     withVirtualTotalStock(Limit(Find(catalog, [k \in DOMAIN catalog |-> TRUE]), 3)))
  /\ pc' = "done"
  /\ UNCHANGED <<catalog, now, logged>>

\* GET /api/products/category/:category
GetByCategory ==
  /\ \E c \in CategoryArgs :
       LET products == findByCategory(catalog, c)
       IN  last' = Outcome("GET category", c,
                           [success |-> TRUE, count |-> Len(products), data |-> products])
  /\ UNCHANGED <<catalog, pc, now, logged>>

\* GET /api/products/alert/low-stock
GetLowStock ==
  /\ \E param \in ThresholdParams :
       LET threshold == routeThreshold(param)
           products == findLowStock(catalog, <<threshold>>)
       IN  last' = Outcome("GET low-stock", param,
                           [success |-> TRUE, threshold |-> threshold,
                            count |-> Len(products), data |-> products])
  /\ UNCHANGED <<catalog, pc, now, logged>>

Next ==
  \/ InsertSampleData
  \/ Query1 \/ Query2 \/ Query3 \/ Query4 \/ Query5
  \/ Query6 \/ Query7 \/ Query8 \/ Query9
  \/ GetByCategory \/ GetLowStock

Spec == Init /\ [][Next]_vars

(***************************************************************************)
(* Properties                                                              *)
(***************************************************************************)
\* The positions of every variant stored in the catalogue.
StoredVariants == VariantPositions(catalog)

\* Some stored variant carries the SKU.
Carried(coll, sku) ==
  \E i \in DOMAIN coll : \E j \in DOMAIN coll[i].variants : coll[i].variants[j].sku = sku

\* result is the documents of coll at the positions idx, in natural order.
Rank(idx, i) == Cardinality({m \in idx : m <= i})

IsSelection(result, coll, idx) ==
  /\ Len(result) = Cardinality(idx)
  /\ \A i \in idx : result[Rank(idx, i)] = coll[i]

\* ---- C1 ----------------------------------------------------------------
LowStockCall == last.op \in {"findLowStock", "GET low-stock"}
LowStockThreshold == IF last.op = "findLowStock" THEN last.arg ELSE last.result.threshold
LowStockReturned == IF last.op = "findLowStock" THEN last.result ELSE last.result.data

\* C1: findLowStock(T) returns exactly the products that are active and have
\* at least one variant with stock <= T, whatever the stock of their other
\* variants; no inactive product and no product whose variants all exceed T
\* is returned.
C1_FindLowStockExact ==
  LowStockCall =>
    IsSelection(LowStockReturned, catalog,
                {i \in DOMAIN catalog :
                   /\ catalog[i].isActive
                   /\ \E j \in DOMAIN catalog[i].variants :
                        catalog[i].variants[j].stock <= LowStockThreshold})

\* A call that returns a product having one variant at or below T and another
\* above it, over a catalogue that also holds an inactive product with a
\* variant at or below T.
C1_Witness ==
  /\ LowStockCall
  /\ \E k \in DOMAIN LowStockReturned :
       \E j1, j2 \in DOMAIN LowStockReturned[k].variants :
         /\ LowStockReturned[k].variants[j1].stock <= LowStockThreshold
         /\ LowStockReturned[k].variants[j2].stock > LowStockThreshold
  /\ \E i \in DOMAIN catalog :
       /\ ~catalog[i].isActive
       /\ \E j \in DOMAIN catalog[i].variants :
            catalog[i].variants[j].stock <= LowStockThreshold

\* ---- C2 ----------------------------------------------------------------
\* C2: no two distinct stored variants carry the same SKU, whether they
\* belong to different products or to the same product.
C2_SkuGloballyUnique ==
  \A q1, q2 \in StoredVariants :
    q1 # q2 => catalog[q1[1]].variants[q1[2]].sku # catalog[q2[1]].variants[q2[2]].sku

\* ---- C3 ----------------------------------------------------------------
\* Two variants of different products of the batch have the same SKU.
SharedSkuAcrossProducts(docs) ==
  \E i1, i2 \in DOMAIN docs :
    /\ i1 # i2
    /\ \E j1 \in DOMAIN docs[i1].variants, j2 \in DOMAIN docs[i2].variants :
         docs[i1].variants[j1].sku = docs[i2].variants[j2].sku

\* C3: a batch insert in which two variants of different products have the
\* same SKU fails (with the error of the uniqueness constraint, which the
\* specification calls ValidationError) and stores none of the records of
\* the batch; the records of the batch are those created at the time of the
\* insert, now - 1.
C3_DuplicateSkuBatchAllOrNothing ==
  (/\ last.op = "insertSampleData"
   /\ logged.kind # "MongoNetworkError"
   /\ SharedSkuAcrossProducts(last.arg))
  => /\ logged.kind \in {"ValidationError", "MongoBulkWriteError"}
     /\ \A i \in DOMAIN catalog : catalog[i].createdAt # now - 1

\* ---- C4 ----------------------------------------------------------------
\* Query 8 acts in this step.
UpdateStep == pc = "q8" /\ pc' = "q9"

\* C4: an update whose SKU some variant carries sets the stock of one variant
\* carrying that SKU to newStock and changes nothing else but the parent
\* product's updatedAt: the variant's other fields, its siblings and every
\* other product are as before.
C4_UpdateChangesOnlyThatStock ==
  [][(UpdateStep /\ Carried(catalog, last'.arg.sku)) =>
       /\ Len(catalog') = Len(catalog)
       /\ \E i \in DOMAIN catalog : \E j \in DOMAIN catalog[i].variants :
            /\ catalog[i].variants[j].sku = last'.arg.sku
            /\ \A m \in DOMAIN catalog : m # i => catalog'[m] = catalog[m]
            /\ catalog'[i].name = catalog[i].name
            /\ catalog'[i].basePrice = catalog[i].basePrice
            /\ catalog'[i].category = catalog[i].category
            /\ catalog'[i].isActive = catalog[i].isActive
            /\ catalog'[i].ratingAverage = catalog[i].ratingAverage
            /\ catalog'[i].createdAt = catalog[i].createdAt
            /\ catalog'[i].updatedAt = now
            /\ catalog'[i].updatedAt > catalog[i].updatedAt
            /\ DOMAIN catalog'[i].variants = DOMAIN catalog[i].variants
            /\ \A m \in DOMAIN catalog[i].variants :
                 m # j => catalog'[i].variants[m] = catalog[i].variants[m]
            /\ catalog'[i].variants[j].stock = last'.arg.newStock
            /\ catalog'[i].variants[j].color = catalog[i].variants[j].color
            /\ catalog'[i].variants[j].size = catalog[i].variants[j].size
            /\ catalog'[i].variants[j].sku = catalog[i].variants[j].sku
            /\ catalog'[i].variants[j].priceModifier = catalog[i].variants[j].priceModifier
    ]_vars

\* An update has set the stock of a variant that has siblings, in a catalogue
\* of several products, and the parent's updatedAt has moved.
C4_Witness ==
  /\ last.op = "updateVariantStock"
  /\ last.result.modifiedCount = 1
  /\ Len(catalog) > 1
  /\ \E i \in DOMAIN catalog : \E j \in DOMAIN catalog[i].variants :
       /\ catalog[i].variants[j].sku = last.arg.sku
       /\ catalog[i].variants[j].stock = last.arg.newStock
       /\ Len(catalog[i].variants) > 1
       /\ catalog[i].updatedAt > catalog[i].createdAt

C6_FieldRangesHold ==
  /\ \A i \in DOMAIN catalog :
       /\ catalog[i].basePrice >= 0
       /\ catalog[i].ratingAverage >= 0 /\ catalog[i].ratingAverage <= 50
  /\ \A q \in StoredVariants :
       /\ catalog[q[1]].variants[q[2]].stock >= 0
       /\ catalog[q[1]].variants[q[2]].priceModifier >= -100000
       /\ catalog[q[1]].variants[q[2]].priceModifier <= 100000

\* ---- C7 ----------------------------------------------------------------
CategoryCall == last.op \in {"findByCategory", "GET category"}
CategoryReturned == IF last.op = "findByCategory" THEN last.result ELSE last.result.data

\* C7: findByCategory(c) returns exactly the products whose category is c and
\* that are active; for a c outside the seven categories the result is empty
\* and no error is raised.
C7_FindByCategoryExact ==
  CategoryCall =>
    /\ IsSelection(CategoryReturned, catalog,
                   {i \in DOMAIN catalog :
                      catalog[i].category = last.arg /\ catalog[i].isActive})
    /\ last.arg \notin Categories => (CategoryReturned = <<>> /\ last.error = NoError)

\* A call for a category of which the catalogue holds an inactive product,
\* next to products of other categories.
C7_Witness ==
  /\ CategoryCall
  /\ \E i \in DOMAIN catalog : catalog[i].category = last.arg /\ ~catalog[i].isActive
  /\ \E i \in DOMAIN catalog : catalog[i].category # last.arg /\ catalog[i].isActive

\* ---- C8 ----------------------------------------------------------------
\* C8: the colour query with the in-stock filter returns exactly the active
\* products that have a variant whose colour contains the pattern (case
\* ignored) and whose stock is > 0.
C8_ColourInStockExact ==
  last.op = "findVariantColor" =>
    IsSelection(last.result, catalog,
                {i \in DOMAIN catalog :
                   /\ catalog[i].isActive
                   /\ \E j \in DOMAIN catalog[i].variants :
                        /\ RegexTestI(last.arg, catalog[i].variants[j].color)
                        /\ catalog[i].variants[j].stock > 0})

\* ---- C9 ----------------------------------------------------------------
HighTotal == {i \in DOMAIN catalog : totalStock(catalog[i]) > last.arg}

\* C9: aggregateHighTotalStock(minTotal) returns exactly the products whose
\* totalStock (the sum over all variants, zero-stock ones included) is
\* strictly greater than minTotal, each with that totalStock and with its
\* variants of stock > 0, in their original order.
C9_HighTotalStockExact ==
  last.op = "aggregateHighTotalStock" =>
    /\ Len(last.result) = Cardinality(HighTotal)
    /\ \A i \in HighTotal :
         LET row == last.result[Rank(HighTotal, i)]
         IN  /\ row.name = catalog[i].name
             /\ row.category = catalog[i].category
             /\ row.totalStock = totalStock(catalog[i])
             /\ row.variants = SelectSeq(catalog[i].variants, LAMBDA v : v.stock > 0)

\* A call that returns a product with a zero-stock variant dropped from its
\* list, and leaves out a product whose totalStock equals minTotal.
C9_Witness ==
  /\ last.op = "aggregateHighTotalStock"
  /\ \E i \in HighTotal :
       /\ Len(last.result[Rank(HighTotal, i)].variants) < Len(catalog[i].variants)
       /\ last.result[Rank(HighTotal, i)].totalStock > last.arg
  /\ \E i \in DOMAIN catalog : totalStock(catalog[i]) = last.arg

\* ---- C10 ---------------------------------------------------------------
\* C10: when the delete or the insert of the seeding fails, the failure is
\* reported to the caller of insertSampleData and the example queries do not
\* execute.
C10_SeedFailureStopsStartup ==
  logged.kind # "none" =>
    /\ last.op = "insertSampleData" => last.error = logged
    /\ pc \notin {"q2", "q3", "q4", "q5", "q6", "q7", "q8", "q9", "done"}

====
